---- MODULE Spec2Model ----
(***************************************************************************)
(* Model of concat_proj.py: a command-line tool that walks a directory     *)
(* tree, selects files with include/ignore glob patterns and writes their  *)
(* concatenated contents into one output file.                             *)
(*                                                                         *)
(* A Python str is a tuple of one-character strings, so that slicing,      *)
(* comparison and pattern matching are computed character by character.    *)
(* A path is such a str with "/" as os.sep (POSIX).                        *)
(***************************************************************************)
EXTENDS Integers, Sequences, FiniteSets, TLC

VARIABLES
    fs,               \* the filesystem: full path -> [bin, data]
    rootExists,       \* whether the --root directory exists
    args,             \* argparse namespace of the current invocation of main
    pc,               \* position of the current invocation of main
    runs,             \* invocations of main started so far
    main_ignore,      \* main's local ignore_patterns (l.228)
    included_files,   \* concatenate_files' local list of <<rel_path, full_path>>
    fi,               \* index of the next entry of included_files to write (l.172)
    out,              \* what this run has written to outfile, line by line
    stdout,           \* what this invocation has printed
    first,            \* the first completed concatenate run: None or <<[out, ignore]>>
    selPath,          \* should_include_file called on its own: file_path
    selInclude,       \*   include_patterns as passed to concatenate_files (None or a list)
    selIgnore,        \*   ignore_patterns
    selResult         \*   <<>> before the call, <<returned value>> after

vars == << fs, rootExists, args, pc, runs, main_ignore, included_files, fi,
           out, stdout, first, selPath, selInclude, selIgnore, selResult >>

pipelineVars == << fs, rootExists, args, pc, runs, main_ignore, included_files,
                   fi, out, stdout, first >>

selVars == << selPath, selInclude, selIgnore, selResult >>

----------------------------------------------------------------------------
(* Bounds of the model *)

\* Deepest relative path (number of segments) handed to should_include_file on its own.
MaxDepth == 2

\* Most files in the tree under the root when the tool is first run.
MaxFiles == 2

\* Most invocations of main in one behaviour.
MaxRuns == 2

----------------------------------------------------------------------------
(* Python values *)

\* Optional values: None is the empty tuple, a present value x is <<x>>.
None == <<>>

Some(x) == <<x>>

IsNone(o) == Len(o) = 0

\* Python truthiness of an Optional[list]: None and [] are falsy.
Truthy(o) == Len(o) = 1 /\ Len(o[1]) > 0

\* include_patterns or []
OrEmptyList(o) == IF Truthy(o) THEN o[1] ELSE <<>>

\* The printable ASCII characters in code-point order, from " " (32) to "~" (126);
\* the double quote (34), the backslash (92) and the backtick (96) are spelled out.
Printable == <<" ","!","QUOTE","#","$","%","&","'","(",")","*","+",",","-",".","/","0","1","2","3","4","5","6","7","8","9",":",";","<","=",">","?","@","A","B","C","D","E","F","G","H","I","J","K","L","M","N","O","P","Q","R","S","T","U","V","W","X","Y","Z","[","BACKSLASH","]","^","_","BACKTICK","a","b","c","d","e","f","g","h","i","j","k","l","m","n","o","p","q","r","s","t","u","v","w","x","y","z","{","|","}","~">>

\* ord(c)
Ord(c) == 31 + (CHOOSE i \in 1..Len(Printable) : Printable[i] = c)

\* str.lower() on one character
LowerChar(c) == IF Ord(c) >= 65 /\ Ord(c) <= 90 THEN Printable[Ord(c) + 32 - 31] ELSE c

\* str.lower()
Lower(s) == [i \in 1..Len(s) |-> LowerChar(s[i])]

\* str.startswith
StartsWith(s, pre) == Len(s) >= Len(pre) /\ SubSeq(s, 1, Len(pre)) = pre

\* str.endswith
EndsWith(s, suf) == Len(s) >= Len(suf) /\ SubSeq(s, Len(s) - Len(suf) + 1, Len(s)) = suf

\* sub in s
Contains(s, sub) ==
    \E i \in 1..(Len(s) - Len(sub) + 1) : SubSeq(s, i, i + Len(sub) - 1) = sub

\* Comparison of two str, by code point and then by length (str.__lt__).
RECURSIVE LexLessFrom(_, _, _)
LexLessFrom(a, b, i) ==
    IF i > Len(a) THEN i <= Len(b)
    ELSE IF i > Len(b) THEN FALSE
    ELSE IF a[i] = b[i] THEN LexLessFrom(a, b, i + 1)
    ELSE Ord(a[i]) < Ord(b[i])

LexLess(a, b) == LexLessFrom(a, b, 1)

\* sorted(S) for a set S of str
RECURSIVE SortedStrs(_)
SortedStrs(S) ==
    IF S = {} THEN <<>>
    ELSE LET m == CHOOSE x \in S : \A y \in S : y = x \/ LexLess(x, y)
         IN  <<m>> \o SortedStrs(S \ {m})

----------------------------------------------------------------------------
(* pathlib and os.path *)

Sep == "/"

\* s.split("/")
RECURSIVE SplitFrom(_, _, _)
SplitFrom(s, i, cur) ==
    IF i > Len(s) THEN <<cur>>
    ELSE IF s[i] = Sep THEN <<cur>> \o SplitFrom(s, i + 1, <<>>)
    ELSE SplitFrom(s, i + 1, Append(cur, s[i]))

\* Path(p).parts for a relative POSIX path: empty and "." components are dropped.
PathParts(p) ==
    SelectSeq(SplitFrom(p, 1, <<>>), LAMBDA seg : Len(seg) > 0 /\ seg # <<".">>)

\* "/".join(parts)
RECURSIVE Join(_)
Join(parts) ==
    IF Len(parts) = 0 THEN <<>>
    ELSE IF Len(parts) = 1 THEN parts[1]
    ELSE parts[1] \o <<Sep>> \o Join(Tail(parts))

\* str(Path(p)).replace(os.sep, '/') for a relative path
PathStr(p) == IF Len(PathParts(p)) = 0 THEN <<".">> ELSE Join(PathParts(p))

\* Index of the last "." of a file name, 0 when it has none (str.rfind).
LastDot(name) ==
    IF \E i \in 1..Len(name) : name[i] = "."
    THEN CHOOSE i \in 1..Len(name) :
            name[i] = "." /\ \A j \in (i + 1)..Len(name) : name[j] # "."
    ELSE 0

\* os.path.splitext(name)[1] for a file name (no separator): the suffix from the
\* last dot, unless only dots precede that dot.
SplitExt(name) ==
    LET d == LastDot(name)
    IN  IF d > 0 /\ \E k \in 1..(d - 1) : name[k] # "."
        THEN SubSeq(name, d, Len(name))
        ELSE <<>>

----------------------------------------------------------------------------
(* fnmatch *)

\* fnmatch.fnmatch(name, pat) on POSIX (normcase is the identity): the whole of name
\* must match; "*" matches any run of characters, "/" included, consecutive "*" are
\* one "*", "?" matches one character, every other character matches itself.
\* (No pattern of the model holds a "[", so character classes are left out.)
RECURSIVE GlobFrom(_, _, _, _)
GlobFrom(s, p, i, j) ==
    IF j > Len(p) THEN i > Len(s)
    ELSE IF p[j] = "*"
         THEN IF j = Len(p) THEN TRUE
              ELSE IF p[j + 1] = "*" THEN GlobFrom(s, p, i, j + 1)
              ELSE \E k \in i..(Len(s) + 1) : GlobFrom(s, p, k, j + 1)
    ELSE IF i > Len(s) THEN FALSE
    ELSE IF p[j] = "?" THEN GlobFrom(s, p, i + 1, j + 1)
    ELSE s[i] = p[j] /\ GlobFrom(s, p, i + 1, j + 1)

fnmatch(name, pat) == GlobFrom(name, pat, 1, 1)

MatchesAny(name, patterns) == \E k \in 1..Len(patterns) : fnmatch(name, patterns[k])

----------------------------------------------------------------------------
(* Pattern provider *)

get_default_ignore_patterns ==
    << <<"*","*","/","v","e","n","v","/","*","*">>, <<"*","*","/","*","v","e","n","v","/","*","*">>, <<"*","*","/","e","n","v","/","*","*">>, <<"*","*","/","*",".","e","n","v","/","*","*">>, <<"*","*","/","v","i","r","t","u","a","l","e","n","v","/","*","*">>,
       <<"*","*","/",".","v","i","r","t","u","a","l","e","n","v","s","/","*","*">>, <<"*","*","/",".","v","e","n","v","/","*","*">>, <<"*","*","/","E","N","V","/","*","*">>, <<"*","*","/","p","y","t","h","o","n","?","e","n","v","/","*","*">>,
       <<"*","*","/",".","*">>, <<"*","*","/","*","~">>, <<"*","*","/","*",".","~","*","~">>,
       <<"*","*","/","_","_","p","y","c","a","c","h","e","_","_","/","*">>, <<"*","*","/","n","o","d","e","_","m","o","d","u","l","e","s","/","*">>, <<"*","*","/","b","u","i","l","d","/","*">>, <<"*","*","/","d","i","s","t","/","*">>,
       <<"*","*","/","t","a","r","g","e","t","/","*">>, <<"*","*","/","b","i","n","/","*">>, <<"*","*","/","o","b","j","/","*">>,
       <<"*","*","/","*",".","p","y","c">>, <<"*","*","/","*",".","c","l","a","s","s">>, <<"*","*","/","*",".","o">>, <<"*","*","/","*",".","e","x","e">>, <<"*","*","/","*",".","d","l","l">>, <<"*","*","/","*",".","s","o">>,
       <<"*","*","/","*",".","d","y","l","i","b">>,
       <<"*","*","/","*",".","j","a","r">>, <<"*","*","/","*",".","w","a","r">>, <<"*","*","/","*",".","e","a","r">>,
       <<"*","*","/","*",".","z","i","p">>, <<"*","*","/","*",".","t","a","r">>, <<"*","*","/","*",".","g","z">>, <<"*","*","/","*",".","r","a","r">>,
       <<"*","*","/","*","~">>, <<"*","*","/","*",".","s","w","p">>, <<"*","*","/","*",".","s","w","o">>, <<"*","*","/","*",".","s","w","n">>, <<"*","*","/","*",".","b","a","k">>, <<"*","*","/","*","#">>,
       <<"*","*","/","c","o","n","c","a","t","_","p","r","o","j",".","p","y">>, <<"*","*","/","c","o","n","c","a","t","-","p","r","o","j","/","*","*">> >>

----------------------------------------------------------------------------
(* File selector *)

\* l.85: a part of the path starts with a dot
HiddenPart(parts) == \E k \in 1..Len(parts) : StartsWith(parts[k], <<".">>)

\* Mutant of VenvPart: the test is made without lower()
VenvPart_CaseSensitive(parts) == \E k \in 1..Len(parts) : Contains(parts[k], <<"v","e","n","v">>)

\* l.89: a part of the path contains "venv", in any letter case
VenvPart(parts) == \E k \in 1..Len(parts) : Contains(Lower(parts[k]), <<"v","e","n","v">>)

\* Mutant of should_include_file: the include patterns are consulted before the
\* ignore patterns
should_include_file_IncludeFirst(file_path, include_patterns, ignore_patterns) ==
    LET path  == PathStr(file_path)
        parts == PathParts(path)
    IN  IF HiddenPart(parts) THEN FALSE
        ELSE IF VenvPart(parts) THEN FALSE
        ELSE IF EndsWith(path, <<"~">>) THEN FALSE
        ELSE IF Len(include_patterns) > 0 /\ MatchesAny(path, include_patterns) THEN TRUE
        ELSE IF MatchesAny(path, ignore_patterns) THEN FALSE
        ELSE Len(include_patterns) = 0

\* Mutant of should_include_file: an empty include list matches nothing
should_include_file_EmptyMatchesNothing(file_path, include_patterns, ignore_patterns) ==
    LET path  == PathStr(file_path)
        parts == PathParts(path)
    IN  IF HiddenPart(parts) THEN FALSE
        ELSE IF VenvPart(parts) THEN FALSE
        ELSE IF EndsWith(path, <<"~">>) THEN FALSE
        ELSE IF MatchesAny(path, ignore_patterns) THEN FALSE
        ELSE MatchesAny(path, include_patterns)

should_include_file(file_path, include_patterns, ignore_patterns) ==
    LET path  == PathStr(file_path)
        parts == PathParts(path)
    IN  IF HiddenPart(parts) THEN FALSE
        ELSE IF VenvPart(parts) THEN FALSE
        ELSE IF EndsWith(path, <<"~">>) THEN FALSE
        ELSE IF MatchesAny(path, ignore_patterns) THEN FALSE
        ELSE IF Len(include_patterns) = 0 THEN TRUE
        ELSE MatchesAny(path, include_patterns)

\* l.140: the call concatenate_files makes for one file
SelectCall(rel_path, include_patterns, ignore) ==
    should_include_file(rel_path, OrEmptyList(include_patterns), ignore)

----------------------------------------------------------------------------
(* should_include_file on its own: inputs drawn from bounded sets *)

DirNames == { <<"a">>, <<".","d">>, <<"v","e","n","v">>, <<"m","y","V","E","N","V">>, <<"b","u","i","l","d">> }

FileNames == { <<"b",".","p","y">>, <<".","h",".","p","y">>, <<"c",".","p","y","~">>, <<"m",".","p","y","c">>, <<"l",".","s","o">>, <<"c","o","n","c","a","t","_","p","r","o","j",".","p","y">>, <<"r",".","m","d">>, <<"n">> }

\* Relative paths of files: up to MaxDepth - 1 directories and a file name.
RECURSIVE DirChains(_)
DirChains(n) ==
    IF n = 0 THEN { <<>> }
    ELSE DirChains(n - 1) \cup
         { Append(c, d) : c \in { x \in DirChains(n - 1) : Len(x) = n - 1 }, d \in DirNames }

SelPaths == { Join(Append(c, f)) : c \in DirChains(MaxDepth - 1), f \in FileNames }

SelIncludes == { None, Some(<<>>), Some(<< <<"*","*",".","p","y">> >>), Some(<< <<"*",".","m","d">>, <<"*","*","/","*",".","p","y","*">> >>) }

SelIgnores == { <<>>, << <<"*",".","m","d">> >>, get_default_ignore_patterns,
                get_default_ignore_patterns \o << <<"a","/","*">> >> }

SelInit ==
    /\ selPath \in SelPaths
    /\ selInclude \in SelIncludes
    /\ selIgnore \in SelIgnores
    /\ selResult = <<>>

Select ==
    /\ selResult = <<>>
    /\ selResult' = << SelectCall(selPath, selInclude, selIgnore) >>
    /\ UNCHANGED << selPath, selInclude, selIgnore >>

----------------------------------------------------------------------------
(* The filesystem *)

\* os.path.abspath(args.root)
RootDir == <<"/","p">>

\* os.path.join(root, file) for a path relative to the root
FullPath(rel) == RootDir \o <<Sep>> \o rel

\* os.path.relpath(file_path, root_dir) for a file below root_dir
get_relative_path(file_path, root_dir) ==
    SubSeq(file_path, Len(root_dir) + 2, Len(file_path))

\* os.path.basename
BaseName(p) == LET parts == PathParts(p) IN parts[Len(parts)]

\* --output: the default, project_combined.txt in the working directory, which is
\* the default root; or a path in another, existing directory.
OutputInRoot == FullPath(<<"p","r","o","j","e","c","t","_","c","o","m","b","i","n","e","d",".","t","x","t">>)

OutputElsewhere == <<"/","o","/","p","r","o","j","e","c","t","_","c","o","m","b","i","n","e","d",".","t","x","t">>

\* Candidate files of the tree, relative to the root.
TreeFiles == { <<"a","/","x","/","f",".","p","y">>, <<"b","/","x","/","g",".","p","y">>, <<"r",".","m","d">>, <<"v","e","n","v","/","v",".","p","y">>, <<".","h">>, <<"n">> }

\* The candidates that may hold bytes that are not valid UTF-8.
MaybeBinary == { <<"r",".","m","d">>, <<"n">> }

\* One line of text. t is the kind of line, s the path or name it shows, d a number
\* it depends on (nesting depth, width).
Line(t, s, d) == [t |-> t, s |-> s, d |-> d]

\* A text file of the tree holds one line of its own.
TextOf(rel) == [bin |-> FALSE, data |-> << Line("text", rel, 0) >>]

BinaryFile == [bin |-> TRUE, data |-> <<>>]

Trees == { T \in SUBSET TreeFiles : Cardinality(T) <= MaxFiles }

\* The filesystems over a tree: full path -> content.
FileSystems(T) ==
    { [f \in { FullPath(r) : r \in T } |->
         IF get_relative_path(f, RootDir) \in B THEN BinaryFile ELSE TextOf(get_relative_path(f, RootDir))] :
      B \in SUBSET (T \cap MaybeBinary) }

\* The files os.walk(root_dir) yields, as full paths. A root that does not exist
\* yields nothing: os.walk swallows the error of the failed listing (onerror=None).
WalkFiles ==
    IF rootExists
    THEN { f \in DOMAIN fs : StartsWith(f, RootDir \o <<Sep>>) }
    ELSE {}

----------------------------------------------------------------------------
(* Extension listing *)

\* Mutant of get_file_extensions: only the files the selector keeps are looked at
get_file_extensions_Filtered ==
    { SplitExt(BaseName(f)) :
        f \in { g \in WalkFiles :
                   SelectCall(get_relative_path(g, RootDir), None,
                              get_default_ignore_patterns) } } \ { <<>> }

get_file_extensions == { SplitExt(BaseName(f)) : f \in WalkFiles } \ { <<>> }

----------------------------------------------------------------------------
(* Concatenator *)

\* Width of the separator lines
SepWidth == 80

Blank == Line("blank", <<>>, 0)

EqLine == Line("=", <<>>, SepWidth)

DashLine == Line("-", <<>>, SepWidth)

\* "# File: <rel_path>"
Header(rel) == Line("# File:", rel, 0)

\* "# File: <rel_path> (binary file - contents skipped)"
BinaryHeader(rel) == Line("# File: (binary file - contents skipped)", rel, 0)

\* l.159, l.163: "<4*depth spaces>|-- <part>/"
DirLine(depth, part) == Line("dir", part, depth)

\* l.166: "<4*depth spaces>|-- <name>"
FileLine(depth, name) == Line("file", name, depth)

\* l.135-144: the files selected, sorted by relative path
CollectFiles(include_patterns, ignore) ==
    LET rels == { get_relative_path(f, RootDir) : f \in WalkFiles }
        kept == { r \in rels : SelectCall(r, include_patterns, ignore) }
        srt  == SortedStrs(kept)
    IN  [k \in 1..Len(srt) |-> << srt[k], FullPath(srt[k]) >>]

\* l.155-163: the directory headers of one path, against the memo current_dirs.
\* i is 1-based: part i is at depth i - 1.
RECURSIVE DirLoop(_, _, _)
DirLoop(parts, i, current_dirs) ==
    IF i > Len(parts) - 1 THEN [dirs |-> current_dirs, lines |-> <<>>]
    ELSE IF i > Len(current_dirs)
         THEN LET r == DirLoop(parts, i + 1, Append(current_dirs, parts[i]))
              IN  [dirs |-> r.dirs, lines |-> << DirLine(i - 1, parts[i]) >> \o r.lines]
    ELSE IF current_dirs[i] # parts[i]
         THEN LET r == DirLoop(parts, i + 1, [current_dirs EXCEPT ![i] = parts[i]])
              IN  [dirs |-> r.dirs, lines |-> << DirLine(i - 1, parts[i]) >> \o r.lines]
    ELSE DirLoop(parts, i + 1, current_dirs)

\* l.152-166: the lines of the tree, from the k-th included file on
RECURSIVE StructureFrom(_, _, _)
StructureFrom(files, k, current_dirs) ==
    IF k > Len(files) THEN <<>>
    ELSE LET parts == PathParts(files[k][1])
             r     == DirLoop(parts, 1, current_dirs)
         IN  r.lines \o << FileLine(Len(parts) - 1, parts[Len(parts)]) >>
                     \o StructureFrom(files, k + 1, r.dirs)

\* l.149-169: the structure block
StructureBlock(files) ==
    << Line("Project:", BaseName(RootDir), 0), Line("Directory Structure:", <<>>, 0) >>
    \o StructureFrom(files, 1, <<>>)
    \o << Blank, Line("File Contents:", <<>>, 0), EqLine, Blank >>

\* The prefixes of a sequence
Prefixes(q) == { SubSeq(q, 1, n) : n \in 0..Len(q) }

\* What open(full_path).read() can give while outfile is open.  For the output file
\* itself (truncated at l.146) it is whatever part of the buffered writes, those of
\* l.175-176 included, has reached the disk, which may end inside a multi-byte
\* character and then fail to decode.
Readable(full_path) ==
    IF full_path = args.output
    THEN { [bin |-> FALSE, data |-> q] : q \in Prefixes(out \o
              << Blank, Header(get_relative_path(full_path, RootDir)), EqLine >>) }
         \cup { BinaryFile }
    ELSE { fs[full_path] }

\* l.173-181: what is written for one file whose read gives content c
FileLines(rel_path, c) ==
    << Blank, Header(rel_path), EqLine >>
    \o (IF c.bin
        THEN << Blank, BinaryHeader(rel_path), DashLine >>
        ELSE c.data \o << DashLine >>)

----------------------------------------------------------------------------
(* CLI driver *)

\* ', '.join(patterns)
RECURSIVE JoinComma(_)
JoinComma(patterns) ==
    IF Len(patterns) = 0 THEN <<>>
    ELSE IF Len(patterns) = 1 THEN patterns[1]
    ELSE patterns[1] \o <<","," ">> \o JoinComma(Tail(patterns))

\* Mutant of EffectiveIgnore: the default list is one shared list, which the
\* extend of the first run has already lengthened
EffectiveIgnore_Shared(user) ==
    LET shared == IF ~IsNone(first) /\ Truthy(first[1].ignore)
                  THEN get_default_ignore_patterns \o first[1].ignore[1]
                  ELSE get_default_ignore_patterns
    IN  IF Truthy(user) THEN shared \o user[1] ELSE shared

\* l.228-230: the defaults, extended by --ignore when it is given and not empty
EffectiveIgnore(user) ==
    IF Truthy(user) THEN get_default_ignore_patterns \o user[1]
    ELSE get_default_ignore_patterns

\* l.222-224: the listing printed by --list-extensions
ExtensionListing ==
    LET srt == SortedStrs(get_file_extensions)
    IN  << Line("File extensions found in project:", <<>>, 0) >>
        \o [k \in 1..Len(srt) |-> Line("ext", srt[k], 0)]

\* l.240-242: the completion message
CompletionMessage ==
    << Line("Files have been combined into", args.output, 0) >>
    \o (IF Truthy(args.include)
        THEN << Line("Included patterns:", JoinComma(args.include[1]), 0) >>
        ELSE <<>>)

\* Values of --include: absent, or one pattern
Includes == { None, Some(<< <<"*","*",".","p","y">> >>) }

\* Values of --ignore: absent, or one pattern
Ignores == { None, Some(<< <<"*",".","m","d">> >>) }

\* open(output_path, 'w') needs the directory of output_path to exist.
OutputDirExists == rootExists \/ ~StartsWith(args.output, RootDir \o <<Sep>>)

NoFiles == [f \in {} |-> BinaryFile]

\* should_include_file is not being called on its own
SelIdle ==
    /\ selPath = <<>>
    /\ selInclude = None
    /\ selIgnore = <<>>
    /\ selResult = <<>>

Init ==
    /\ rootExists \in BOOLEAN
    /\ fs \in (IF rootExists THEN UNION { FileSystems(T) : T \in Trees } ELSE { NoFiles })
    /\ args \in [ output : { OutputInRoot, OutputElsewhere },
                  include : Includes,
                  ignore : { None },
                  no_structure : BOOLEAN,
                  list_extensions : BOOLEAN ]
    /\ pc = "idle"
    /\ runs = 0
    /\ main_ignore = <<>>
    /\ included_files = <<>>
    /\ fi = 0
    /\ out = <<>>
    /\ stdout = <<>>
    /\ first = None
    /\ SelIdle

\* l.218-220, l.227: one invocation of main starts.  Within a behaviour the command
\* line is repeated, except for --ignore, which each invocation chooses.
ParseArgs ==
    /\ pc \in { "idle", "done", "failed" }
    /\ runs < MaxRuns
    /\ \E ig \in Ignores : args' = [args EXCEPT !.ignore = ig]
    /\ runs' = runs + 1
    /\ pc' = IF args.list_extensions THEN "list" ELSE "build"
    /\ main_ignore' = <<>>
    /\ included_files' = <<>>
    /\ fi' = 0
    /\ out' = <<>>
    /\ stdout' = <<>>
    /\ UNCHANGED << fs, rootExists, first, selVars >>

\* l.220-225
ListExtensions ==
    /\ pc = "list"
    /\ stdout' = ExtensionListing
    /\ pc' = "done"
    /\ UNCHANGED << fs, rootExists, args, runs, main_ignore, included_files, fi,
                    out, first, selVars >>

\* l.228-230
BuildIgnore ==
    /\ pc = "build"
    /\ main_ignore' = EffectiveIgnore(args.ignore)
    /\ pc' = "collect"
    /\ UNCHANGED << fs, rootExists, args, runs, included_files, fi, out, stdout,
                    first, selVars >>

\* l.128-144
Collect ==
    /\ pc = "collect"
    /\ included_files' = CollectFiles(args.include, main_ignore)
    /\ pc' = "open"
    /\ UNCHANGED << fs, rootExists, args, runs, main_ignore, fi, out, stdout,
                    first, selVars >>

\* l.146: the output file is created or truncated; FileNotFoundError propagates
\* out of main when its directory does not exist.
OpenOutput ==
    /\ pc = "open"
    /\ IF OutputDirExists
       THEN /\ fs' = [f \in DOMAIN fs \cup { args.output } |->
                        IF f = args.output THEN [bin |-> FALSE, data |-> <<>>]
                        ELSE fs[f]]
            /\ fi' = 1
            /\ pc' = IF args.no_structure THEN "contents" ELSE "structure"
       ELSE /\ pc' = "failed"
            /\ UNCHANGED << fs, fi >>
    /\ UNCHANGED << rootExists, args, runs, main_ignore, included_files, out,
                    stdout, first, selVars >>

\* l.148-169
WriteStructure ==
    /\ pc = "structure"
    /\ out' = out \o StructureBlock(included_files)
    /\ pc' = "contents"
    /\ UNCHANGED << fs, rootExists, args, runs, main_ignore, included_files, fi,
                    stdout, first, selVars >>

\* l.172-181: one iteration of the loop over included_files
WriteFile ==
    /\ pc = "contents"
    /\ fi <= Len(included_files)
    /\ \E c \in Readable(included_files[fi][2]) :
          out' = out \o FileLines(included_files[fi][1], c)
    /\ fi' = fi + 1
    /\ UNCHANGED << fs, rootExists, args, pc, runs, main_ignore, included_files,
                    stdout, first, selVars >>

\* l.146 (the file is closed, all of out is on disk) and l.240-242
Finish ==
    /\ pc = "contents"
    /\ fi > Len(included_files)
    /\ fs' = [fs EXCEPT ![args.output] = [bin |-> FALSE, data |-> out]]
    /\ stdout' = CompletionMessage
    /\ pc' = "done"
    /\ first' = IF IsNone(first) THEN Some([out |-> out, ignore |-> args.ignore])
                ELSE first
    /\ UNCHANGED << rootExists, args, runs, main_ignore, included_files, fi, out,
                    selVars >>

Next ==
    \/ ParseArgs
    \/ ListExtensions
    \/ BuildIgnore
    \/ Collect
    \/ OpenOutput
    \/ WriteStructure
    \/ WriteFile
    \/ Finish

Spec == Init /\ [][Next]_vars

\* No invocation of main is under way
PipelineIdle ==
    /\ rootExists = TRUE
    /\ fs = NoFiles
    /\ args = [ output |-> OutputElsewhere, include |-> None, ignore |-> None,
                no_structure |-> FALSE, list_extensions |-> FALSE ]
    /\ pc = "idle"
    /\ runs = 0
    /\ main_ignore = <<>>
    /\ included_files = <<>>
    /\ fi = 0
    /\ out = <<>>
    /\ stdout = <<>>
    /\ first = None

SelectFile == Select /\ UNCHANGED pipelineVars

InitSelect ==
    /\ SelInit
    /\ PipelineIdle

SpecSelect == InitSelect /\ [][SelectFile]_vars

----------------------------------------------------------------------------
(* Properties of should_include_file, checked under SpecSelect *)

\* The call has returned
Selected == Len(selResult) = 1

\* The segments of the path handed to the call
SelSegments == SplitFrom(selPath, 1, <<>>)

SelHidden == \E k \in 1..Len(SelSegments) :
                Len(SelSegments[k]) > 0 /\ SelSegments[k][1] = "."

SelVenv == \E k \in 1..Len(SelSegments) : Contains(Lower(SelSegments[k]), <<"v","e","n","v">>)

SelTilde == Len(selPath) > 0 /\ selPath[Len(selPath)] = "~"

SelIgnored == \E k \in 1..Len(selIgnore) : fnmatch(selPath, selIgnore[k])

SelIncludeGiven == Len(selInclude) = 1 /\ Len(selInclude[1]) > 0

SelIncluded == SelIncludeGiven /\
               \E k \in 1..Len(selInclude[1]) : fnmatch(selPath, selInclude[1][k])

\* C2: a path with a segment starting with ".", or a segment containing "venv" in
\* any letter case, or ending with "~", is rejected, whatever the include and the
\* ignore lists are.
C2_StructuralRejection ==
    (Selected /\ (SelHidden \/ SelVenv \/ SelTilde)) => selResult[1] = FALSE

\* C2 witness: a path with an upper-case "VENV" segment and nothing else against it,
\* which matches an include pattern while the ignore list is empty, has been rejected.
C2_Witness ==
    /\ Selected
    /\ SelVenv /\ ~SelHidden /\ ~SelTilde
    /\ \E k \in 1..Len(SelSegments) :
          Contains(Lower(SelSegments[k]), <<"v","e","n","v">>) /\ ~Contains(SelSegments[k], <<"v","e","n","v">>)
    /\ SelIncluded
    /\ selIgnore = <<>>
    /\ selResult[1] = FALSE

\* C3: a path that matches an ignore pattern is rejected, also when it matches an
\* include pattern.
C3_IgnoreWins == (Selected /\ SelIgnored) => selResult[1] = FALSE

\* C3 witness: a path with no hidden, venv or tilde rule against it, matching both an
\* ignore and an include pattern, has been rejected.
C3_Witness ==
    /\ Selected
    /\ ~SelHidden /\ ~SelVenv /\ ~SelTilde
    /\ SelIgnored
    /\ SelIncluded
    /\ selResult[1] = FALSE

\* C4: a path that survives the hidden, venv, tilde and ignore checks is accepted
\* when the include list is absent or empty, and otherwise exactly when it matches an
\* include pattern.
C4_IncludeRule ==
    (Selected /\ ~SelHidden /\ ~SelVenv /\ ~SelTilde /\ ~SelIgnored)
        => (selResult[1] = (IF SelIncludeGiven THEN SelIncluded ELSE TRUE))

\* C4 witness: concatenate_files was given include_patterns None and a surviving path
\* has been accepted.
C4_Witness ==
    /\ Selected
    /\ ~SelHidden /\ ~SelVenv /\ ~SelTilde /\ ~SelIgnored
    /\ IsNone(selInclude)
    /\ Len(selIgnore) > 0
    /\ selResult[1] = TRUE

\* The compiled-binary, package and archive extensions of the default list
C8_Extensions ==
    { <<".","p","y","c">>, <<".","c","l","a","s","s">>, <<".","o">>, <<".","e","x","e">>, <<".","d","l","l">>, <<".","s","o">>, <<".","d","y","l","i","b">>, <<".","j","a","r">>, <<".","w","a","r">>, <<".","e","a","r">>,
      <<".","z","i","p">>, <<".","t","a","r">>, <<".","g","z">>, <<".","r","a","r">> }

\* C8: with the default ignore list, a file named concat_proj.py or ending in one of
\* the default binary, package or archive extensions is rejected at every depth,
\* directly under the root included.
C8_DefaultsExclude ==
    ( /\ Selected
      /\ selIgnore = get_default_ignore_patterns
      /\ \/ SelSegments[Len(SelSegments)] = <<"c","o","n","c","a","t","_","p","r","o","j",".","p","y">>
         \/ \E e \in C8_Extensions : EndsWith(selPath, e) )
    => selResult[1] = FALSE

----------------------------------------------------------------------------
(* Properties of main, checked under Spec *)

\* The run is in concatenate mode
ConcatMode == ~args.list_extensions

\* C1: a second concatenate run with the same options on the otherwise unchanged
\* tree leaves in the output file what the first run left there.
C1_SecondRunIdentical ==
    ( /\ pc = "done"
      /\ ConcatMode
      /\ runs = 2
      /\ ~IsNone(first)
      /\ first[1].ignore = args.ignore )
    => fs[args.output].data = first[1].out

\* C5: for an included file that cannot be decoded, the step of the contents loop
\* writes the "binary file" header and the dash separator and nothing else.
C5_BinaryOnlyNote ==
    [][ ( /\ pc = "contents"
          /\ fi <= Len(included_files)
          /\ fi' = fi + 1
          /\ included_files[fi][2] # args.output
          /\ fs[included_files[fi][2]].bin )
        => \/ out' = out \o << BinaryHeader(included_files[fi][1]), DashLine >>
           \/ out' = out \o << Blank, BinaryHeader(included_files[fi][1]), DashLine >>
      ]_vars

\* The directory chain of length i of the k-th included file
C6_Chain(k, i) == SubSeq(PathParts(included_files[k][1]), 1, i)

\* The lines the tree must show for the k-th included file: a header for each of its
\* directories that no earlier file lies in, then the file name at its depth.
C6_LinesOf(k) ==
    LET parts == PathParts(included_files[k][1])
        new   == { i \in 1..(Len(parts) - 1) :
                     \A j \in 1..(k - 1) :
                        \/ Len(PathParts(included_files[j][1])) <= i
                        \/ C6_Chain(j, i) # C6_Chain(k, i) }
        hdrs  == [i \in 1..(Len(parts) - 1) |->
                     IF i \in new THEN << DirLine(i - 1, parts[i]) >> ELSE <<>>]
        RECURSIVE Flat(_)
        Flat(i) == IF i > Len(parts) - 1 THEN <<>> ELSE hdrs[i] \o Flat(i + 1)
    IN  Flat(1) \o << FileLine(Len(parts) - 1, parts[Len(parts)]) >>

RECURSIVE C6_ExpectedFrom(_)
C6_ExpectedFrom(k) ==
    IF k > Len(included_files) THEN <<>> ELSE C6_LinesOf(k) \o C6_ExpectedFrom(k + 1)

\* C6: in the structure block every directory, identified by its chain of ancestors,
\* has one header line, at its depth, where it first appears and before its files;
\* every included file has one line at its depth.
C6_TreeShowsEveryDirectory ==
    (pc = "contents" /\ fi = 1 /\ ~args.no_structure)
    => SubSeq(out, 3, Len(out) - 4) = C6_ExpectedFrom(1)

\* C7: when the root directory does not exist, concatenate mode never prints the
\* completion message.
C7_MissingRootFails ==
    (~rootExists /\ ConcatMode)
    => \A k \in 1..Len(stdout) : stdout[k].t # "Files have been combined into"

\* C9: in every concatenate run the effective ignore list is the default list
\* followed by the --ignore patterns of that run, whatever earlier runs were given.
C9_DefaultsThenUser ==
    (ConcatMode /\ pc \in { "collect", "open", "structure", "contents", "done" })
    => main_ignore = get_default_ignore_patterns \o OrEmptyList(args.ignore)

\* C9 witness: a second run without --ignore, after a first run with --ignore
\* patterns, has built its ignore list.
C9_Witness ==
    /\ ConcatMode
    /\ runs = 2
    /\ pc = "collect"
    /\ ~IsNone(first)
    /\ Truthy(first[1].ignore)
    /\ IsNone(args.ignore)
    /\ main_ignore = get_default_ignore_patterns

\* The extensions of all files below the root
C10_Extensions == { SplitExt(BaseName(f)) : f \in DOMAIN fs } \ { <<>> }

\* C10: with --list-extensions main never enters concatenate_files and never creates
\* or writes the output file; it prints every distinct non-empty extension of the
\* files under the root once, in ascending order, hidden and ignored files included.
C10_ListOnly ==
    args.list_extensions =>
        /\ pc \in { "idle", "list", "done" }
        /\ included_files = <<>>
        /\ out = <<>>
        /\ args.output \notin DOMAIN fs
        /\ pc = "done" =>
              /\ Len(stdout) = 1 + Cardinality(C10_Extensions)
              /\ stdout[1].t = "File extensions found in project:"
              /\ \A k \in 2..Len(stdout) :
                    stdout[k].t = "ext" /\ stdout[k].s \in C10_Extensions
              /\ \A k \in 2..(Len(stdout) - 1) : LexLess(stdout[k].s, stdout[k + 1].s)

\* C10 witness: the listing of a tree with a file in a venv directory and a file
\* without extension has been printed, and shows the extension of the former.
C10_Witness ==
    /\ args.list_extensions
    /\ pc = "done"
    /\ \E f \in DOMAIN fs : VenvPart(PathParts(f)) /\ SplitExt(BaseName(f)) # <<>>
    /\ \E f \in DOMAIN fs : SplitExt(BaseName(f)) = <<>>
    /\ Len(stdout) = 2

====
